---- MODULE Spec2Model ----
(***************************************************************************)
(* AuraLinkerBot (src/bot.py): the per-message download-and-relay          *)
(* workflow of handle_text, the URL extractor, the host allow-list and the *)
(* temp-file janitor.                                                      *)
(*                                                                         *)
(* Texts are sequences of one-character strings.  Time is in seconds.      *)
(***************************************************************************)
EXTENDS Integers, Sequences, FiniteSets, TLC

(***************************************************************************)
(* Characters and strings                                                  *)
(***************************************************************************)

\* str.strip() and the regular expression's \s agree on these characters.
Whitespace == {" ", "\n", "\t"}

IsSpace(c) == c \in Whitespace

\* str.lower() on the characters the model uses.
Lower(c) ==
    CASE c = "H" -> "h"
      [] c = "T" -> "t"
      [] c = "P" -> "p"
      [] c = "S" -> "s"
      [] c = "F" -> "f"
      [] c = "B" -> "b"
      [] c = "W" -> "w"
      [] c = "A" -> "a"
      [] c = "C" -> "c"
      [] c = "Y" -> "y"
      [] OTHER -> c

LowerStr(s) == [i \in 1..Len(s) |-> Lower(s[i])]

\* s[i : i + Len(t)] == t  (t occurs in s at position i)
OccursAt(t, s, i) ==
    /\ i >= 1
    /\ i + Len(t) - 1 <= Len(s)
    /\ \A k \in 1..Len(t) : s[i + k - 1] = t[k]

\* Python's `t in s`
Contains(s, t) == \E i \in 1..(Len(s) + 1) : OccursAt(t, s, i)

RECURSIVE LStrip(_)
LStrip(s) == IF s # <<>> /\ IsSpace(Head(s)) THEN LStrip(Tail(s)) ELSE s

RECURSIVE RStrip(_)
RStrip(s) ==
    IF s # <<>> /\ IsSpace(s[Len(s)]) THEN RStrip(SubSeq(s, 1, Len(s) - 1)) ELSE s

\* str.strip()
Strip(s) == RStrip(LStrip(s))

(***************************************************************************)
(* extract_url                                                             *)
(***************************************************************************)

None == <<>>

HTTP == <<"h", "t", "t", "p">>
COLON_SLASHES == <<":", "/", "/">>

\* SchemeLen without re.IGNORECASE.
SchemeLenNoIgnoreCase(s, i) ==
    IF OccursAt(HTTP, s, i)
    THEN IF OccursAt(COLON_SLASHES, s, i + 4) THEN 7
         ELSE IF OccursAt(<<"s">>, s, i + 4)
                 /\ OccursAt(COLON_SLASHES, s, i + 5) THEN 8
         ELSE 0
    ELSE 0

\* Length of the text that  https?://  matches at position i of s under
\* re.IGNORECASE, or 0 when it does not match there.
SchemeLen(s, i) ==
    LET l == LowerStr(s) IN
    IF OccursAt(HTTP, l, i)
    THEN IF OccursAt(COLON_SLASHES, l, i + 4) THEN 7
         ELSE IF OccursAt(<<"s">>, l, i + 4)
                 /\ OccursAt(COLON_SLASHES, l, i + 5) THEN 8
         ELSE 0
    ELSE 0

\* End (inclusive) of the greedy run  [^\s]+  that starts at position j of s;
\* j - 1 when the run is empty.
RECURSIVE RunEnd(_, _)
RunEnd(s, j) ==
    IF j <= Len(s) /\ ~IsSpace(s[j]) THEN RunEnd(s, j + 1) ELSE j - 1

\* The match of URL_REGEX that starts at position i of s, or None.
MatchAt(s, i) ==
    LET n == SchemeLen(s, i)
        e == RunEnd(s, i + n)
    IN  IF n > 0 /\ e >= i + n THEN SubSeq(s, i, e) ELSE None

\* URL_REGEX.search(s).group(1): the leftmost match from position i on.
RECURSIVE Search(_, _)
Search(s, i) ==
    IF i > Len(s) THEN None
    ELSE IF MatchAt(s, i) # None THEN MatchAt(s, i)
    ELSE Search(s, i + 1)

extract_url(text) ==
    IF text = <<>> THEN None
    ELSE Search(Strip(text), 1)

(***************************************************************************)
(* supports_site                                                           *)
(***************************************************************************)

ALLOWED_HOSTS == {
    <<"y", "o", "u", "t", "u", "b", "e", ".", "c", "o", "m">>,
    <<"y", "o", "u", "t", "u", ".", "b", "e">>,
    <<"t", "i", "k", "t", "o", "k", ".", "c", "o", "m">>,
    <<"f", "a", "c", "e", "b", "o", "o", "k", ".", "c", "o", "m">>,
    <<"f", "b", ".", "w", "a", "t", "c", "h">> }

\* supports_site without .lower().
supports_site_NoLower(url) == \E host \in ALLOWED_HOSTS : Contains(url, host)

\* any(host in url.lower() for host in ALLOWED_HOSTS)
supports_site(url) == \E host \in ALLOWED_HOSTS : Contains(LowerStr(url), host)


(***************************************************************************)
(* Inbound messages, the fetcher's results and the platform's texts        *)
(***************************************************************************)

\* Number of inbound messages (one handle_text invocation each).
NumMsgs == 2
Msgs == 1..NumMsgs

T_YOUTU == <<"w", "a", "t", "c", "h", " ", "h", "t", "t", "p", "s", ":", "/", "/", "y", "o", "u", "t", "u", ".", "b", "e", "/", "a", " ", "n", "i", "c", "e">>
T_FB == <<"H", "T", "T", "P", ":", "/", "/", "F", "B", ".", "W", "A", "T", "C", "H", "/", "b">>
T_HELLO == <<"h", "e", "l", "l", "o", " ", "w", "o", "r", "l", "d">>
T_EXAMPLE == <<"h", "t", "t", "p", "s", ":", "/", "/", "e", "x", "a", "m", "p", "l", "e", ".", "c", "o", "m", "/", "v", "i", "d", "e", "o">>
T_EMPTY == <<>>

\* update.message.text or ""
Texts == {T_YOUTU, T_FB, T_HELLO, T_EXAMPLE, T_EMPTY}

REJECT_TEXT == <<"Please send a valid TikTok, YouTube, or Facebook link.">>
PROGRESS_TEXT == <<"Downloading your video...">>
UPLOAD_VIDEO == <<"upload_video">>
THANKS == "\nThanks for using AuraLinkerBot!"

\* What yt-dlp extracts for a URL: the info dict (the second URL's has no
\* "title" key) and the file name that outtmpl gives in DOWNLOAD_DIR.
InfoOf(url) ==
    IF Contains(LowerStr(url), <<"y", "o", "u", "t", "u">>)
    THEN [title |-> "a", ext |-> "mp4"]
    ELSE [ext |-> "mp4"]

PathOf(url) ==
    IF Contains(LowerStr(url), <<"y", "o", "u", "t", "u">>)
    THEN "/tmp/downloads/a.mp4"
    ELSE "/tmp/downloads/NA.mp4"

Paths == {"/tmp/downloads/a.mp4", "/tmp/downloads/NA.mp4"}

\* Exception messages: of the fetcher, of a platform operation (of
\* reply_video and of reply_document in particular), of open() and
\* os.path.getsize() on a missing file.
FetchErrors == {"network timeout", "Unsupported URL"}
PLATFORM_ERROR == "Timed out"
VIDEO_ERROR == "Request Entity Too Large"
DOCUMENT_ERROR == "Bad Request: file is too big"
ENOENT == "[Errno 2] No such file or directory"

\* info.get("title", "video")
GetTitle(info) == IF "title" \in DOMAIN info THEN info.title ELSE "video"

VideoCaption(title) == <<"OK ", title, THANKS>>
DocumentCaption(title) == <<"OK ", title, " (sent as file)", THANKS>>

\* ErrorText that drops the exception's message.
ErrorTextGeneric(e) == <<"Error: ", "download failed">>

\* f"Error: {e}"
ErrorText(e) == <<"Error: ", e>>

(***************************************************************************)
(* State                                                                   *)
(***************************************************************************)

VARIABLES
    pc,       \* per message: the await at which its handle_text is suspended
    state,    \* per message: the workflow state of the handler
    text,     \* per message: the text of the inbound message
    url,      \* per message: the local variable url of handle_text
    trace,    \* per message: the operations handle_text has invoked, in order
    thread,   \* per message: the worker thread of asyncio.to_thread
    result,   \* per message: what ytdlp_download returned or raised
    files,    \* DOWNLOAD_DIR: path -> st_mtime, NoFile when there is none
    wall,     \* the wall clock (time.time(), stamps st_mtime)
    loop,     \* the event loop's clock (loop.time(), monotonic)
    ticks,    \* number of clock advances so far
    inText,   \* extract_url on its own: the argument
    outUrl,   \* extract_url on its own: the returned value
    called,   \* extract_url on its own: whether it has returned
    outOk     \* supports_site on its own: the returned value

vars == <<pc, state, text, url, trace, thread, result, files, wall, loop,
          ticks, inText, outUrl, called, outOk>>

handlerVars == <<pc, state, text, url, trace, thread, result, files, wall,
                 loop, ticks>>
pureVars == <<inText, outUrl, called, outOk>>

NoFile == -1

\* 60*60 of the janitor's age test
Hour == 60 * 60
HalfHour == 30 * 60

\* The clocks advance HalfHour at a time, at most MaxTicks times.
MaxTicks == 3

\* loop.time() is time.monotonic(), which counts from boot; time.time() counts
\* from the epoch: wall - loop is the boot time, here 0 or MaxBootHours hours.
MaxBootHours == 2
BootTimes == {0, MaxBootHours * Hour}

\* written: the wall-clock time at which the download wrote its file.
NoResult == [path |-> "", info |-> [ext |-> ""], exc |-> "", written |-> NoFile]

Event(op, arg, file) == [op |-> op, arg |-> arg, file |-> file]

Log(m, e) == [trace EXCEPT ![m] = Append(@, e)]

Exists(path) == files[path] # NoFile

Init ==
    /\ pc = [m \in Msgs |-> "idle"]
    /\ state = [m \in Msgs |-> "idle"]
    /\ text = [m \in Msgs |-> <<>>]
    /\ url = [m \in Msgs |-> None]
    /\ trace = [m \in Msgs |-> <<>>]
    /\ thread = [m \in Msgs |-> "none"]
    /\ result = [m \in Msgs |-> NoResult]
    /\ files = [p \in Paths |-> NoFile]
    /\ loop = 0
    /\ wall \in BootTimes
    /\ ticks = 0
    /\ inText = <<>>
    /\ outUrl = None
    /\ called = FALSE
    /\ outOk = FALSE

(***************************************************************************)
(* The janitor sweep of the finally block                                  *)
(***************************************************************************)

\* p.is_file(): every entry of the model's directory is a regular file.
IsFile(p) == Exists(p)

\* Aged with a threshold of fifteen minutes.
AgedFifteenMinutes(p) == files[p] < loop - 15 * 60

\* Aged without the age test.
AgedAlways(p) == TRUE

\* p.stat().st_mtime < (asyncio.get_event_loop().time() - 60*60)
Aged(p) == files[p] < loop - Hour

\* The files the for loop unlinks when nothing raises.
Old == {p \in Paths : IsFile(p) /\ Aged(p)}

Unlinked(D) == [p \in Paths |-> IF p \in D THEN NoFile ELSE files[p]]

SweepEvent(ok) == Event("sweep", <<IF ok THEN "ok" ELSE "raised">>, "")

\* Finally without the except clause of line 108: an exception of the loop
\* leaves the handler.
FinallyPropagates(m, endpc) ==
    \E ok \in BOOLEAN, D \in SUBSET Old :
        /\ ok => D = Old
        /\ files' = Unlinked(D)
        /\ trace' = Log(m, SweepEvent(ok))
        /\ pc' = [pc EXCEPT ![m] = IF ok THEN endpc ELSE "raised"]

\* Finally as a cleanup that runs only when the handler returns normally.
FinallyOnlyOnReturn(m, endpc) ==
    IF endpc = "returned"
    THEN \E ok \in BOOLEAN, D \in SUBSET Old :
            /\ ok => D = Old
            /\ files' = Unlinked(D)
            /\ trace' = Log(m, SweepEvent(ok))
            /\ pc' = [pc EXCEPT ![m] = endpc]
    ELSE /\ pc' = [pc EXCEPT ![m] = endpc]
         /\ UNCHANGED <<files, trace>>

\* The finally block, then the end of handle_text at endpc.  The loop runs
\* without an await, so no other handler runs in between.  When is_file, stat
\* or unlink raises, the loop stops there (except Exception: pass) with the
\* files D unlinked so far; the directory order is arbitrary.
Finally(m, endpc) ==
    \E ok \in BOOLEAN, D \in SUBSET Old :
        /\ ok => D = Old
        /\ files' = Unlinked(D)
        /\ trace' = Log(m, SweepEvent(ok))
        /\ pc' = [pc EXCEPT ![m] = endpc]

(***************************************************************************)
(* handle_text, one action per resumption of the coroutine                 *)
(***************************************************************************)

\* Lines 100-101: except Exception as e, up to the await of status.edit_text.
Failed(m, e) ==
    /\ state' = [state EXCEPT ![m] = "failed"]
    /\ trace' = Log(m, Event("edit_text", ErrorText(e), ""))
    /\ pc' = [pc EXCEPT ![m] = "await_edit"]

\* Rejects without the allow-list.
RejectsOnlyMissing(u) == u = None

\* Line 70: if not url or not supports_site(url)
Rejects(u) == u = None \/ ~supports_site(u)

\* Lines 68-76: the message arrives; up to the first await.
HandleText(m) ==
    /\ pc[m] = "idle"
    /\ \E t \in Texts :
        LET u == extract_url(t) IN
        /\ text' = [text EXCEPT ![m] = t]
        /\ url' = [url EXCEPT ![m] = u]
        /\ IF Rejects(u)
           THEN /\ state' = [state EXCEPT ![m] = "rejected"]
                /\ trace' = Log(m, Event("reply_text", REJECT_TEXT, ""))
                /\ pc' = [pc EXCEPT ![m] = "await_reject"]
           ELSE /\ state' = [state EXCEPT ![m] = "validating"]
                /\ trace' = Log(m, Event("send_action", UPLOAD_VIDEO, ""))
                /\ pc' = [pc EXCEPT ![m] = "await_action"]
    /\ UNCHANGED <<thread, result, files, wall, loop, ticks, pureVars>>

\* Lines 71-74: the rejection reply returns or raises; return.
RejectReturns(m) ==
    /\ pc[m] = "await_reject"
    /\ \E ok \in BOOLEAN :
        pc' = [pc EXCEPT ![m] = IF ok THEN "returned" ELSE "raised"]
    /\ UNCHANGED <<state, text, url, trace, thread, result, files, wall, loop,
                   ticks, pureVars>>

\* Lines 76-77: send_action returns or raises; await the progress message.
ActionReturns(m) ==
    /\ pc[m] = "await_action"
    /\ \E ok \in BOOLEAN :
        IF ok
        THEN /\ trace' = Log(m, Event("reply_text", PROGRESS_TEXT, ""))
             /\ pc' = [pc EXCEPT ![m] = "await_progress"]
        ELSE /\ pc' = [pc EXCEPT ![m] = "raised"]
             /\ UNCHANGED trace
    /\ UNCHANGED <<state, text, url, thread, result, files, wall, loop, ticks,
                   pureVars>>

\* StartFetch that hands the fetcher the stripped text instead of the URL.
StartFetchOnText(m) ==
    /\ state' = [state EXCEPT ![m] = "downloading"]
    /\ trace' = Log(m, Event("ytdlp_download", Strip(text[m]), ""))
    /\ thread' = [thread EXCEPT ![m] = "running"]
    /\ pc' = [pc EXCEPT ![m] = "await_fetch"]

\* Lines 79-80: await asyncio.to_thread(ytdlp_download, url)
StartFetch(m) ==
    /\ state' = [state EXCEPT ![m] = "downloading"]
    /\ trace' = Log(m, Event("ytdlp_download", url[m], ""))
    /\ thread' = [thread EXCEPT ![m] = "running"]
    /\ pc' = [pc EXCEPT ![m] = "await_fetch"]

\* Lines 77-80: the progress message is sent or raises; asyncio.to_thread
\* starts ytdlp_download(url) on a worker thread and the handler awaits it.
ProgressReturns(m) ==
    /\ pc[m] = "await_progress"
    /\ \E ok \in BOOLEAN :
        IF ok
        THEN StartFetch(m)
        ELSE /\ pc' = [pc EXCEPT ![m] = "raised"]
             /\ UNCHANGED <<state, trace, thread>>
    /\ UNCHANGED <<text, url, result, files, wall, loop, ticks, pureVars>>

\* Lines 31-52, on the worker thread: the download writes the file (st_mtime
\* is the wall clock) and returns (file_path, info), file_path being the
\* prepared name or its .mp4 alternative, whichever exists; or it raises; or
\* it never returns.
ytdlp_download(m) ==
    /\ thread[m] = "running"
    /\ \/ /\ thread' = [thread EXCEPT ![m] = "returned"]
          /\ files' = [files EXCEPT ![PathOf(url[m])] = wall]
          /\ result' = [result EXCEPT ![m] =
                 [path |-> PathOf(url[m]), info |-> InfoOf(url[m]), exc |-> "",
                  written |-> wall]]
       \/ /\ \E e \in FetchErrors :
                result' = [result EXCEPT ![m] = [NoResult EXCEPT !.exc = e]]
          /\ thread' = [thread EXCEPT ![m] = "raised"]
          /\ UNCHANGED files
       \/ /\ thread' = [thread EXCEPT ![m] = "hung"]
          /\ UNCHANGED <<files, result>>
    /\ UNCHANGED <<pc, state, text, url, trace, wall, loop, ticks, pureVars>>

\* Lines 80-91: the await of the thread ends; getsize and open, then the
\* await of reply_video; or the except clause of line 100.
FetchReturns(m) ==
    /\ pc[m] = "await_fetch"
    /\ thread[m] \in {"returned", "raised"}
    /\ IF thread[m] = "raised"
       THEN Failed(m, result[m].exc)
       ELSE IF ~Exists(result[m].path)
       THEN Failed(m, ENOENT)
       ELSE /\ state' = [state EXCEPT ![m] = "relaying"]
            /\ trace' = Log(m, Event("reply_video",
                             VideoCaption(GetTitle(result[m].info)),
                             result[m].path))
            /\ pc' = [pc EXCEPT ![m] = "await_video"]
    /\ UNCHANGED <<text, url, thread, result, files, wall, loop, ticks,
                   pureVars>>

\* Line 99, up to the await of status.delete.
Relayed(m) ==
    /\ state' = [state EXCEPT ![m] = "done"]
    /\ trace' = Log(m, Event("delete", <<>>, ""))
    /\ pc' = [pc EXCEPT ![m] = "await_delete"]

\* Lines 88-99: reply_video returns or raises; on an exception open the file
\* again and await reply_document.
VideoReturns(m) ==
    /\ pc[m] = "await_video"
    /\ \E ok \in BOOLEAN :
        IF ok
        THEN Relayed(m)
        ELSE IF ~Exists(result[m].path)
        THEN Failed(m, ENOENT)
        ELSE /\ trace' = Log(m, Event("reply_document",
                              DocumentCaption(GetTitle(result[m].info)),
                              result[m].path))
             /\ pc' = [pc EXCEPT ![m] = "await_document"]
             /\ UNCHANGED state
    /\ UNCHANGED <<text, url, thread, result, files, wall, loop, ticks,
                   pureVars>>

\* DocumentRaises that reports the exception of reply_video.
DocumentRaisesShowsVideoError(m) == Failed(m, VIDEO_ERROR)

\* Lines 93-101: the exception of reply_document leaves the inner except
\* clause and is caught by the except clause of line 100.
DocumentRaises(m) == Failed(m, DOCUMENT_ERROR)

\* Lines 94-101: reply_document returns or raises.
DocumentReturns(m) ==
    /\ pc[m] = "await_document"
    /\ \E ok \in BOOLEAN :
        IF ok THEN Relayed(m) ELSE DocumentRaises(m)
    /\ UNCHANGED <<text, url, thread, result, files, wall, loop, ticks,
                   pureVars>>

\* Lines 99-109: status.delete returns, then the finally block and the end of
\* the handler; or it raises into the except clause of line 100.
DeleteReturns(m) ==
    /\ pc[m] = "await_delete"
    /\ \E ok \in BOOLEAN :
        IF ok
        THEN Finally(m, "returned") /\ UNCHANGED state
        ELSE Failed(m, PLATFORM_ERROR) /\ UNCHANGED files
    /\ UNCHANGED <<text, url, thread, result, wall, loop, ticks, pureVars>>

\* Lines 101-109: status.edit_text returns or raises; the finally block runs
\* either way, and an exception of edit_text leaves handle_text after it.
EditReturns(m) ==
    /\ pc[m] = "await_edit"
    /\ \E ok \in BOOLEAN : Finally(m, IF ok THEN "returned" ELSE "raised")
    /\ UNCHANGED <<state, text, url, thread, result, wall, loop, ticks,
                   pureVars>>

\* Time passes on both clocks.
Tick ==
    /\ ticks < MaxTicks
    /\ ticks' = ticks + 1
    /\ wall' = wall + HalfHour
    /\ loop' = loop + HalfHour
    /\ UNCHANGED <<pc, state, text, url, trace, thread, result, files,
                   pureVars>>

Next ==
    \/ \E m \in Msgs : HandleText(m)
    \/ \E m \in Msgs : RejectReturns(m)
    \/ \E m \in Msgs : ActionReturns(m)
    \/ \E m \in Msgs : ProgressReturns(m)
    \/ \E m \in Msgs : ytdlp_download(m)
    \/ \E m \in Msgs : FetchReturns(m)
    \/ \E m \in Msgs : VideoReturns(m)
    \/ \E m \in Msgs : DocumentReturns(m)
    \/ \E m \in Msgs : DeleteReturns(m)
    \/ \E m \in Msgs : EditReturns(m)
    \/ Tick

Spec == Init /\ [][Next]_vars

\* The cooperative scheduler resumes every handler whose await has ended, and
\* every worker thread runs; a message need not arrive and time need not pass.
Resume(m) ==
    \/ RejectReturns(m)
    \/ ActionReturns(m)
    \/ ProgressReturns(m)
    \/ FetchReturns(m)
    \/ VideoReturns(m)
    \/ DocumentReturns(m)
    \/ DeleteReturns(m)
    \/ EditReturns(m)

FairSpec ==
    /\ Spec
    /\ \A m \in Msgs : WF_vars(Resume(m)) /\ WF_vars(ytdlp_download(m))

(***************************************************************************)
(* extract_url on its own, on every text of up to MaxFrags fragments       *)
(***************************************************************************)

Frags == {
    <<"h", "t", "t", "p">>,
    <<":", "/", "/">>,
    <<"H", "t", "T", "p", "S", ":", "/", "/">>,
    <<"x">>,
    <<"s">>,
    <<" ">>,
    <<"\n">> }

MaxFrags == 5

RECURSIVE TextsOf(_)
TextsOf(n) ==
    IF n = 0 THEN {<<>>}
    ELSE LET S == TextsOf(n - 1) IN S \cup {t \o f : t \in S, f \in Frags}

InitExtract ==
    /\ pc = [m \in Msgs |-> "idle"]
    /\ state = [m \in Msgs |-> "idle"]
    /\ text = [m \in Msgs |-> <<>>]
    /\ url = [m \in Msgs |-> None]
    /\ trace = [m \in Msgs |-> <<>>]
    /\ thread = [m \in Msgs |-> "none"]
    /\ result = [m \in Msgs |-> NoResult]
    /\ files = [p \in Paths |-> NoFile]
    /\ loop = 0
    /\ wall = 0
    /\ ticks = 0
    /\ inText \in TextsOf(MaxFrags)
    /\ outUrl = None
    /\ called = FALSE
    /\ outOk = FALSE

CallExtractUrl ==
    /\ ~called
    /\ outUrl' = extract_url(inText)
    /\ called' = TRUE
    /\ UNCHANGED <<inText, outOk, handlerVars>>

NextExtract == CallExtractUrl

SpecExtract == InitExtract /\ [][NextExtract]_vars

(***************************************************************************)
(* supports_site on its own, on every URL of up to MaxSiteFrags fragments  *)
(* after the scheme                                                        *)
(***************************************************************************)

HTTP_SCHEME == <<"h", "t", "t", "p", ":", "/", "/">>

SiteFrags == {
    <<"e", "v", "i", "l", ".", "c", "o", "m", "/">>,
    <<"y", "o", "u", "t", "u", "b", "e", ".", "c", "o", "m">>,
    <<"Y", "o", "u", "T", "u", ".", "b", "e">>,
    <<"t", "i", "k", "t", "o", "k", ".", "c", "o", "m">>,
    <<"f", "a", "c", "e", "b", "o", "o", "k", ".", "c", "o", "m">>,
    <<"F", "B", ".", "W", "A", "T", "C", "H">>,
    <<"y", "o", "u", "t", "u">>,
    <<"b", "e">>,
    <<"t", "i", "k", "t", "o", "k">>,
    <<".", "c", "o", "m">>,
    <<"/", "x">> }

MaxSiteFrags == 3

RECURSIVE UrlsOf(_)
UrlsOf(n) ==
    IF n = 0 THEN {HTTP_SCHEME}
    ELSE LET S == UrlsOf(n - 1) IN S \cup {u \o f : u \in S, f \in SiteFrags}

InitSites ==
    /\ pc = [m \in Msgs |-> "idle"]
    /\ state = [m \in Msgs |-> "idle"]
    /\ text = [m \in Msgs |-> <<>>]
    /\ url = [m \in Msgs |-> None]
    /\ trace = [m \in Msgs |-> <<>>]
    /\ thread = [m \in Msgs |-> "none"]
    /\ result = [m \in Msgs |-> NoResult]
    /\ files = [p \in Paths |-> NoFile]
    /\ loop = 0
    /\ wall = 0
    /\ ticks = 0
    /\ inText \in UrlsOf(MaxSiteFrags)
    /\ outUrl = None
    /\ called = FALSE
    /\ outOk = FALSE

CallSupportsSite ==
    /\ ~called
    /\ outOk' = supports_site(inText)
    /\ called' = TRUE
    /\ UNCHANGED <<inText, outUrl, handlerVars>>

NextSites == CallSupportsSite

SpecSites == InitSites /\ [][NextSites]_vars

(***************************************************************************)
(* Properties                                                              *)
(***************************************************************************)

Finished(m) == pc[m] \in {"returned", "raised"}

\* The positions of the trace of m at which op was invoked.
Ops(m, op) == {i \in 1..Len(trace[m]) : trace[m][i].op = op}

Count(m, op) == Cardinality(Ops(m, op))

LastOp(m) == IF trace[m] = <<>> THEN "" ELSE trace[m][Len(trace[m])].op

\* The message of handler m carries no URL, or one the allow-list rejects.
Unsupported(m) ==
    /\ pc[m] # "idle"
    /\ extract_url(text[m]) = None \/ ~supports_site(extract_url(text[m]))

Supported(m) ==
    /\ pc[m] # "idle"
    /\ extract_url(text[m]) # None
    /\ supports_site(extract_url(text[m]))

\* C1: a message without a URL, or with a URL that supports_site rejects, puts
\* the handler in `rejected`; the handler invokes reply_text once, with the
\* fixed rejection text, and nothing else: no send_action, no progress
\* message, no fetch, no edit, no delete, no sweep.
C1_RejectedOnlyReplies ==
    \A m \in Msgs :
        Unsupported(m) =>
            /\ state[m] = "rejected"
            /\ trace[m] = <<Event("reply_text", REJECT_TEXT, "")>>
            /\ thread[m] = "none"
            /\ result[m] = NoResult

C1_Witness ==
    \E m \in Msgs :
        /\ text[m] = T_EXAMPLE
        /\ extract_url(text[m]) # None
        /\ pc[m] = "returned"
        /\ state[m] = "rejected"

\* C2 (as claimed): when reply_video has failed after a successful fetch,
\* reply_document is invoked exactly once, with the same file and the fallback
\* caption, and when that send succeeds the progress message is deleted and
\* no error text is shown.
C2_DocumentFallback ==
    \A m \in Msgs : \A i \in Ops(m, "reply_video") :
        (i < Len(trace[m]) /\ trace[m][i + 1].op # "delete") =>
            /\ trace[m][i + 1] =
                   Event("reply_document",
                         DocumentCaption(GetTitle(result[m].info)),
                         trace[m][i].file)
            /\ Count(m, "reply_document") = 1
            /\ (i + 2 <= Len(trace[m]) /\ trace[m][i + 2].op = "delete") =>
                   Count(m, "edit_text") = 0

\* C3: when ytdlp_download has raised with message e, the handler invokes
\* neither reply_video nor reply_document, edits the progress message to a
\* text that contains e, and ends with the sweep, after the edit.
C3_FetchErrorShownThenSweep ==
    \A m \in Msgs :
        thread[m] = "raised" =>
            /\ result[m].exc \in FetchErrors
            /\ Count(m, "reply_video") = 0
            /\ Count(m, "reply_document") = 0
            /\ pc[m] # "await_fetch" =>
                   /\ Count(m, "edit_text") = 1
                   /\ \A i \in Ops(m, "edit_text") :
                          /\ i = 4
                          /\ \E k \in 1..Len(trace[m][i].arg) :
                                 trace[m][i].arg[k] = result[m].exc
                   /\ state[m] = "failed"
            /\ Finished(m) => (Len(trace[m]) = 5 /\ LastOp(m) = "sweep")

C3_Witness ==
    \E m \in Msgs :
        /\ thread[m] = "raised"
        /\ result[m].exc = "network timeout"
        /\ pc[m] = "returned"
        /\ LastOp(m) = "sweep"

\* C4 (as claimed): no invocation of handle_text ends with an exception.
C4_NothingPropagates == \A m \in Msgs : pc[m] # "raised"

\* C5 (as claimed): every invocation of handle_text that returns has run the
\* sweep as its last step, whichever of done, failed, rejected it reached.
C5_SweepOnEveryReturn ==
    \A m \in Msgs : pc[m] = "returned" => LastOp(m) = "sweep"

\* C5 (amended): every invocation that reached done or failed has run the
\* sweep, once, as its last step, whether it then returns or raises; an
\* invocation that reached rejected ends without a sweep.
C5_SweepAfterDoneOrFailed ==
    \A m \in Msgs :
        Finished(m) =>
            /\ state[m] \in {"done", "failed"} =>
                   (LastOp(m) = "sweep" /\ Count(m, "sweep") = 1)
            /\ state[m] = "rejected" => Count(m, "sweep") = 0

C5_Witness ==
    /\ \E m \in Msgs : pc[m] = "raised" /\ state[m] = "failed" /\ LastOp(m) = "sweep"
    /\ \E m \in Msgs : pc[m] = "returned" /\ state[m] = "rejected"

\* The step is the sweep of handler m, and nothing in it raised.
CleanSweepStep(m) ==
    /\ Len(trace'[m]) = Len(trace[m]) + 1
    /\ trace'[m][Len(trace'[m])] = SweepEvent(TRUE)

\* C6 (as claimed): a sweep in which nothing raises deletes exactly the files
\* whose st_mtime is more than one hour before the wall-clock time of the
\* sweep.
C6_SweepDeletesOlderThanHour ==
    [][\A m \in Msgs :
          CleanSweepStep(m) =>
              files' = [p \in Paths |->
                           IF Exists(p) /\ files[p] < wall - Hour
                           THEN NoFile ELSE files[p]]]_vars

\* C7 (as claimed): a handler whose fetch never returns stays in downloading,
\* and every handler that has started and whose fetch does not hang reaches
\* done, failed or rejected.
C7_OthersReachTerminal ==
    /\ [](\A m \in Msgs :
             thread[m] = "hung" =>
                 (state[m] = "downloading" /\ pc[m] = "await_fetch"))
    /\ \A m \in Msgs :
           (pc[m] # "idle") ~>
               \/ thread[m] = "hung"
               \/ Finished(m) /\ state[m] \in {"done", "failed", "rejected"}

\* C8: a file leaves the download directory only in the sweep of some
\* handler, and only when it passes the age test of the sweep; and when a
\* handler ends in done less than one hour (of wall-clock time) after its
\* download wrote the file, the file is still there.
C8_OnlyJanitorDeletes ==
    [][/\ \A p \in Paths :
             (Exists(p) /\ files'[p] = NoFile) =>
                 /\ files[p] < loop - Hour
                 /\ \E m \in Msgs :
                        /\ pc[m] \in {"await_delete", "await_edit"}
                        /\ Finished(m)'
                        /\ trace'[m][Len(trace'[m])].op = "sweep"
       /\ \A m \in Msgs :
             (/\ pc[m] = "await_delete"
              /\ pc'[m] = "returned"
              /\ wall - result[m].written < Hour) =>
                 files'[result[m].path] # NoFile]_vars

\* A handler has returned in done with its file in place, after a sweep that
\* removed the file another handler had downloaded.
C8_Witness ==
    \E m \in Msgs, n \in Msgs :
        /\ pc[m] = "returned"
        /\ state[m] = "done"
        /\ Exists(result[m].path)
        /\ thread[n] = "returned"
        /\ ~Exists(result[n].path)

PrefixLen(t, i) ==
    IF i + 6 <= Len(t)
       /\ LowerStr(SubSeq(t, i, i + 6)) = <<"h", "t", "t", "p", ":", "/", "/">>
    THEN 7
    ELSE IF i + 7 <= Len(t)
            /\ LowerStr(SubSeq(t, i, i + 7))
                   = <<"h", "t", "t", "p", "s", ":", "/", "/">>
    THEN 8
    ELSE 0

\* The first whitespace of t from position i on, Len(t) + 1 when none.
NextSpace(t, i) ==
    LET S == {j \in i..Len(t) : IsSpace(t[j])}
    IN  IF S = {} THEN Len(t) + 1 ELSE CHOOSE j \in S : \A k \in S : j <= k

FirstOf(S) == CHOOSE i \in S : \A k \in S : i <= k

\* C10 (as claimed): not found when the text has no prefix; otherwise the
\* text from its first prefix up to the next whitespace or the end.
ClaimedUrl(t) ==
    LET P == {i \in 1..Len(t) : PrefixLen(t, i) > 0}
    IN  IF P = {} THEN None
        ELSE SubSeq(t, FirstOf(P), NextSpace(t, FirstOf(P)) - 1)

C10_FirstPrefix == called => outUrl = ClaimedUrl(inText)

\* C10 (amended): extract_url returns not found when no prefix of the text is
\* directly followed by a non-whitespace character; otherwise the text from
\* the first prefix that is, up to the next whitespace or the end.
AmendedUrl(t) ==
    LET P == {i \in 1..Len(t) :
                 /\ PrefixLen(t, i) > 0
                 /\ i + PrefixLen(t, i) <= Len(t)
                 /\ ~IsSpace(t[i + PrefixLen(t, i)])}
    IN  IF P = {} THEN None
        ELSE SubSeq(t, FirstOf(P), NextSpace(t, FirstOf(P)) - 1)

C10_FirstFollowedPrefix == called => outUrl = AmendedUrl(inText)

\* extract_url has skipped a bare prefix and returned a later URL that ends
\* before the end of the text.
C10_Witness ==
    /\ called
    /\ outUrl # None
    /\ outUrl # ClaimedUrl(inText)
    /\ Len(outUrl) < Len(inText)

\* The five host substrings of the allow-list.
ListedHosts == {
    <<"y", "o", "u", "t", "u", "b", "e", ".", "c", "o", "m">>,
    <<"y", "o", "u", "t", "u", ".", "b", "e">>,
    <<"t", "i", "k", "t", "o", "k", ".", "c", "o", "m">>,
    <<"f", "a", "c", "e", "b", "o", "o", "k", ".", "c", "o", "m">>,
    <<"f", "b", ".", "w", "a", "t", "c", "h">> }

\* Some listed host is a slice of the lowercased u.
HasListedHost(u) ==
    \E h \in ListedHosts : \E i \in 1..Len(u) :
        /\ i + Len(h) - 1 <= Len(u)
        /\ LowerStr(SubSeq(u, i, i + Len(h) - 1)) = h

EVIL_URL == <<"h", "t", "t", "p", ":", "/", "/", "e", "v", "i", "l", ".", "c", "o", "m", "/", "y", "o", "u", "t", "u", "b", "e", ".", "c", "o", "m", "/", "x">>

\* C11: supports_site returns true exactly for the URLs whose lowercased form
\* contains one of the five listed host substrings anywhere; the URL
\* http://evil.com/youtube.com/x is accepted, and handle_text does not
\* reject it.
C11_SubstringAllowList ==
    called =>
        /\ outOk = HasListedHost(inText)
        /\ inText = EVIL_URL => (outOk /\ ~Rejects(extract_url(inText)))

C11_Witness == called /\ inText = EVIL_URL /\ outOk

\* C12: when reply_video and then the one reply_document have both failed,
\* the handler sends nothing more (one video send, then one document send),
\* does not delete the progress message, and takes the failed path: the next
\* thing it invokes is edit_text with the error text of the exception of
\* reply_document.
C12_FallbackFailsOnce ==
    \A m \in Msgs :
        /\ Count(m, "reply_video") <= 1
        /\ Count(m, "reply_document") <= 1
        /\ \A i \in Ops(m, "reply_document") :
              /\ i > 1 /\ trace[m][i - 1].op = "reply_video"
              /\ (i < Len(trace[m]) /\ trace[m][i + 1].op # "delete") =>
                    /\ trace[m][i + 1] =
                           Event("edit_text", <<"Error: ", DOCUMENT_ERROR>>, "")
                    /\ state[m] = "failed"
                    /\ Count(m, "delete") = 0
                    /\ Count(m, "edit_text") = 1

C12_Witness ==
    \E m \in Msgs :
        /\ Finished(m)
        /\ state[m] = "failed"
        /\ Count(m, "reply_document") = 1
        /\ Count(m, "delete") = 0
        /\ LastOp(m) = "sweep"

\* C13 (as claimed): once a video or a document has been sent successfully
\* (the handler went on to status.delete), no error text is shown and the
\* handler ends in done.
C13_FailedOnlyOnFetchOrRelay ==
    \A m \in Msgs :
        Count(m, "delete") > 0 =>
            /\ Count(m, "edit_text") = 0
            /\ state[m] = "done"

\* The step is the sweep of handler m.
SweepStep(m) ==
    /\ Len(trace'[m]) = Len(trace[m]) + 1
    /\ trace'[m][Len(trace'[m])].op = "sweep"

\* The step is the sweep of handler m, and is_file, stat or unlink raised in
\* it.
RaisedSweepStep(m) ==
    /\ Len(trace'[m]) = Len(trace[m]) + 1
    /\ trace'[m][Len(trace'[m])] = SweepEvent(FALSE)

\* C14 (as claimed): when one file's deletion or inspection fails in a sweep,
\* nothing is shown to the user, the state of the handler does not change,
\* and the sweep still deletes the other files that pass the age test: at
\* most the one file is left.
C14_FailureSkipsOneFile ==
    [][\A m \in Msgs :
          RaisedSweepStep(m) =>
              /\ state'[m] = state[m]
              /\ Count(m, "edit_text")' = Count(m, "edit_text")
              /\ Cardinality({p \in Old : files'[p] # NoFile}) <= 1]_vars

\* C15: the sweeps of concurrent handlers are benign.  An exception inside a
\* sweep never leaves the handler; a sweep removes only files that pass its
\* age test and touches no other file and no other handler; and after a
\* sweep in which nothing raised no file that passes the age test is left,
\* whatever the sweeps of other handlers removed before it.
C15_ConcurrentSweepsBenign ==
    [][\A m \in Msgs :
          SweepStep(m) =>
              /\ pc[m] = "await_delete" => pc'[m] = "returned"
              /\ \A p \in Paths :
                    files'[p] # files[p] => (p \in Old /\ files'[p] = NoFile)
              /\ CleanSweepStep(m) =>
                    \A p \in Paths :
                        files'[p] = NoFile \/ files'[p] >= loop - Hour
              /\ \A n \in Msgs \ {m} :
                    /\ pc'[n] = pc[n]
                    /\ state'[n] = state[n]
                    /\ trace'[n] = trace[n]]_vars

\* Two handlers have downloaded different files and both have ended with a
\* sweep in which nothing raised; both files are gone.
C15_Witness ==
    \E m \in Msgs, n \in Msgs :
        /\ m # n
        /\ pc[m] = "returned" /\ pc[n] = "returned"
        /\ trace[m][Len(trace[m])] = SweepEvent(TRUE)
        /\ trace[n][Len(trace[n])] = SweepEvent(TRUE)
        /\ thread[m] = "returned" /\ thread[n] = "returned"
        /\ result[m].path # result[n].path
        /\ ~Exists(result[m].path) /\ ~Exists(result[n].path)

\* C16: a file that leaves the directory was last modified at least one hour
\* of wall-clock time before; and from the return of its download until the
\* handler has opened it for the relay, a file written less than one hour
\* ago is in the directory.
C16_YoungFilesSurvive ==
    [][/\ \A p \in Paths :
             (Exists(p) /\ files'[p] = NoFile) => wall - files[p] >= Hour
       /\ \A m \in Msgs :
             (/\ thread'[m] = "returned"
              /\ pc'[m] \in {"await_fetch", "await_video"}
              /\ wall' - result'[m].written < Hour) =>
                 files'[result'[m].path] # NoFile]_vars

\* A handler's download has returned and its file, less than an hour old,
\* is in place after the sweep of a sibling removed the sibling's file.
C16_Witness ==
    \E m \in Msgs, n \in Msgs :
        /\ m # n
        /\ pc[m] = "await_fetch"
        /\ thread[m] = "returned"
        /\ wall - result[m].written < Hour
        /\ Exists(result[m].path)
        /\ Finished(n)
        /\ LastOp(n) = "sweep"
        /\ thread[n] = "returned"
        /\ result[n].path # result[m].path
        /\ ~Exists(result[n].path)

====
